---- MODULE Spec2Model ----
(***************************************************************************)
(* SpoPathBreadcrumb (search-parts/src/components/                         *)
(* SpoPathBreadcrumbComponent.tsx): the breadcrumb items computed from a   *)
(* SharePoint item path and its site URL.                                  *)
(*                                                                         *)
(* A JavaScript string is a sequence of one-character strings; the array   *)
(* and string methods the component calls (split, slice, join, replace,    *)
(* filter, pop, map, number-to-string) are operators that compute what     *)
(* the methods compute.                                                    *)
(***************************************************************************)
EXTENDS Integers, Sequences, FiniteSets, TLC

(* Bounds of the explored inputs. *)
MaxLen == 3
MaxTail == 3
MaxSuffix == 6

(***************************************************************************)
(* JavaScript built-ins used by the component.                             *)
(***************************************************************************)

Min(a, b) == IF a < b THEN a ELSE b

Str(S, n) == UNION {[1..k -> S] : k \in 0..n}

RECURSIVE splitAcc(_, _, _)
splitAcc(s, cur, acc) ==
    IF s = <<>> THEN Append(acc, cur)
    ELSE IF Head(s) = "/" THEN splitAcc(Tail(s), <<>>, Append(acc, cur))
    ELSE splitAcc(Tail(s), Append(cur, Head(s)), acc)

(* String.prototype.split('/') *)
split(s) == splitAcc(s, <<>>, <<>>)

(* Array.prototype.slice(begin, end), 0 <= begin, 0 <= end *)
slice(arr, begin, end) == SubSeq(arr, begin + 1, Min(end, Len(arr)))

RECURSIVE join(_)
(* Array.prototype.join('/') *)
join(arr) ==
    IF arr = <<>> THEN <<>>
    ELSE IF Len(arr) = 1 THEN arr[1]
    ELSE arr[1] \o <<"/">> \o join(Tail(arr))

RECURSIVE indexOfFrom(_, _, _)
indexOfFrom(s, pattern, i) ==
    IF i + Len(pattern) > Len(s) THEN -1
    ELSE IF SubSeq(s, i + 1, i + Len(pattern)) = pattern THEN i
    ELSE indexOfFrom(s, pattern, i + 1)

RECURSIVE replace_Global(_, _)
(* variant: every occurrence is removed, as a /g pattern would *)
replace_Global(s, pattern) ==
    LET pos == indexOfFrom(s, pattern, 0)
    IN  IF pos = -1 \/ pattern = <<>> THEN s
        ELSE SubSeq(s, 1, pos)
                 \o replace_Global(SubSeq(s, pos + Len(pattern) + 1, Len(s)), pattern)

(* variant: the pattern is removed only at the start of the string *)
replace_Anchored(s, pattern) ==
    IF Len(pattern) <= Len(s) /\ SubSeq(s, 1, Len(pattern)) = pattern
    THEN SubSeq(s, Len(pattern) + 1, Len(s))
    ELSE s

(* String.prototype.replace(pattern, '') with a string pattern *)
replace(s, pattern) ==
    LET pos == indexOfFrom(s, pattern, 0)
    IN  IF pos = -1 THEN s
        ELSE SubSeq(s, 1, pos) \o SubSeq(s, pos + Len(pattern) + 1, Len(s))

(* variant: no part is discarded *)
filter_KeepsEmpty(arr) == arr

(* Array.prototype.filter(part => part) *)
filter(arr) == SelectSeq(arr, LAMBDA part : part # <<>>)

(* variant: the first element is removed, as shift() would *)
pop_First(arr) == IF arr = <<>> THEN <<>> ELSE SubSeq(arr, 2, Len(arr))

(* Array.prototype.pop(), the array left behind *)
pop(arr) == IF arr = <<>> THEN <<>> ELSE SubSeq(arr, 1, Len(arr) - 1)

Digit == <<"0", "1", "2", "3", "4", "5", "6", "7", "8", "9">>

RECURSIVE toString(_)
(* a non-negative number in a template literal *)
toString(n) ==
    IF n < 10 THEN <<Digit[n + 1]>>
    ELSE toString(n \div 10) \o <<Digit[(n % 10) + 1]>>

(***************************************************************************)
(* Props.  An optional string prop is undefined, null or a string.         *)
(***************************************************************************)

Undefined == [tag |-> "undefined", s |-> <<>>]
Null == [tag |-> "null", s |-> <<>>]
String(s) == [tag |-> "string", s |-> s]

(***************************************************************************)
(* SpoPathBreadcrumb                                                       *)
(***************************************************************************)

(* variant: a truthiness test, which an empty string fails *)
validateFilePath_Truthy(originalPath, spWebUrl) ==
    /\ originalPath.tag = "string" /\ originalPath.s # <<>>
    /\ spWebUrl.tag = "string" /\ spWebUrl.s # <<>>

validateFilePath(originalPath, spWebUrl) ==
    /\ originalPath # Undefined
    /\ originalPath # Null
    /\ spWebUrl # Undefined
    /\ spWebUrl # Null

(* variant: one component fewer is kept *)
basePathOf_Three(spWebUrl) == join(slice(split(spWebUrl), 0, 3))

(* const basePath = frags.slice(0, 4).join('/') *)
basePathOf(spWebUrl) == join(slice(split(spWebUrl), 0, 4))

(* variant: basePath is removed whatever includeSiteName is *)
partsOf_AlwaysBasePath(spWebUrl, originalPath, includeSiteName, includeEntityName) ==
    LET parts == filter(split(replace(originalPath, basePathOf(spWebUrl))))
    IN  IF ~includeEntityName THEN pop(parts) ELSE parts

(* const parts = ... ; if (!includeEntityName) parts.pop(); *)
partsOf(spWebUrl, originalPath, includeSiteName, includeEntityName) ==
    LET parts == IF includeSiteName
                 THEN filter(split(replace(originalPath, basePathOf(spWebUrl))))
                 ELSE filter(split(replace(originalPath, spWebUrl)))
    IN  IF ~includeEntityName THEN pop(parts) ELSE parts

(* variant: the 0-based index is used *)
itemKey_ZeroBased(index) == <<"i", "t", "e", "m">> \o toString(index)

(* key: `item${index + 1}` *)
itemKey(index) == <<"i", "t", "e", "m">> \o toString(index + 1)

(* variant: the href is rooted at spWebUrl whatever includeSiteName is *)
itemHref_AlwaysSiteUrl(spWebUrl, parts, index, includeSiteName) ==
    spWebUrl \o <<"/">> \o join(slice(parts, 0, index + 1))

(* item.href = includeSiteName ? `${basePath}/${...}` : `${spWebUrl}/${...}` *)
itemHref(spWebUrl, parts, index, includeSiteName) ==
    IF includeSiteName
    THEN basePathOf(spWebUrl) \o <<"/">> \o join(slice(parts, 0, index + 1))
    ELSE spWebUrl \o <<"/">> \o join(slice(parts, 0, index + 1))

(* variant: the href is set whatever breadcrumbItemsAsLinks is *)
mapItem_AlwaysHref(spWebUrl, parts, index, includeSiteName, breadcrumbItemsAsLinks) ==
    [text |-> parts[index + 1], key |-> itemKey(index),
     href |-> itemHref(spWebUrl, parts, index, includeSiteName)]

(* the callback of parts.map *)
mapItem(spWebUrl, parts, index, includeSiteName, breadcrumbItemsAsLinks) ==
    LET item == [text |-> parts[index + 1], key |-> itemKey(index)]
    IN  IF breadcrumbItemsAsLinks
        THEN [text |-> item.text, key |-> item.key,
              href |-> itemHref(spWebUrl, parts, index, includeSiteName)]
        ELSE item

getBreadcrumbItems(spWebUrl, originalPath, includeSiteName, includeEntityName, breadcrumbItemsAsLinks) ==
    LET parts == partsOf(spWebUrl, originalPath, includeSiteName, includeEntityName)
    IN  [i \in 1..Len(parts) |->
            mapItem(spWebUrl, parts, i - 1, includeSiteName, breadcrumbItemsAsLinks)]

(***************************************************************************)
(* Inputs.                                                                 *)
(***************************************************************************)

(* https://contoso.sharepoint.com/sites *)
ExampleBase ==
    <<"h","t","t","p","s",":","/","/","c","o","n","t","o","s","o",".",
      "s","h","a","r","e","p","o","i","n","t",".","c","o","m","/",
      "s","i","t","e","s">>

(* https://contoso.sharepoint.com/sites/sitename *)
ExampleSiteUrl == ExampleBase \o <<"/","s","i","t","e","n","a","m","e">>

SharedDocuments ==
    <<"S","h","a","r","e","d"," ","D","o","c","u","m","e","n","t","s">>

DocDocx == <<"D","o","c",".","d","o","c","x">>

(* https://contoso.sharepoint.com/sites/sitename/Shared Documents/Doc.docx *)
ExampleOriginalPath ==
    ExampleSiteUrl \o <<"/">> \o SharedDocuments \o <<"/">> \o DocDocx

(* h://c/s, a URL of the shape scheme://host/collection *)
Root == <<"h", ":", "/", "/", "c", "/", "s">>

Leads == {<<>>, <<"a", "/">>}

(* pairs <<originalPath, spWebUrl>> of strings *)
SmallPairs == Str({"/", "a", "b"}, MaxLen) \X Str({"/", "a", "b"}, MaxLen)

UrlPairs ==
    {<<lead \o Root \o u, Root \o t>> :
        lead \in Leads, u \in Str({"/", "a"}, MaxSuffix), t \in Str({"/", "a"}, MaxTail)}

(* h://c/s/a/a/a/a/a/a/a/a/a/a/a/a, a path with more than nine segments *)
DeepPath == Root \o [i \in 1..24 |-> IF i % 2 = 1 THEN "/" ELSE "a"]

ExamplePairs ==
    {<<ExampleOriginalPath, ExampleSiteUrl>>, <<DeepPath, Root \o <<"/", "a">> >>}

StringPairs == SmallPairs \cup UrlPairs \cup ExamplePairs

PropPairs ==
    {<<String(p[1]), String(p[2])>> : p \in StringPairs}
    \cup {<<a, String(s)>> : a \in {Undefined, Null}, s \in {<<>>, Root, ExampleSiteUrl}}
    \cup {<<String(s), a>> : a \in {Undefined, Null}, s \in {<<>>, Root, ExampleOriginalPath}}
    \cup ({Undefined, Null} \X {Undefined, Null})

(***************************************************************************)
(* State.                                                                  *)
(***************************************************************************)

VARIABLES
    originalPath,           \* props.originalPath
    spWebUrl,               \* props.spWebUrl
    includeSiteName,        \* props.includeSiteName
    includeEntityName,      \* props.includeEntityName
    breadcrumbItemsAsLinks, \* props.breadcrumbItemsAsLinks
    pc,                     \* "connected" before render, then "rendered"
    breadcrumb,             \* whether the rendered fragment holds a Breadcrumb
    items,                  \* the items prop of the rendered Breadcrumb
    calls                   \* invocations of getBreadcrumbItems

vars == <<originalPath, spWebUrl, includeSiteName, includeEntityName,
          breadcrumbItemsAsLinks, pc, breadcrumb, items, calls>>

props == <<originalPath, spWebUrl, includeSiteName, includeEntityName,
           breadcrumbItemsAsLinks>>

Init ==
    /\ \E p \in PropPairs : originalPath = p[1] /\ spWebUrl = p[2]
    /\ includeSiteName \in BOOLEAN
    /\ includeEntityName \in BOOLEAN
    /\ breadcrumbItemsAsLinks \in BOOLEAN
    /\ pc = "connected"
    /\ breadcrumb = FALSE
    /\ items = <<>>
    /\ calls = 0

(* render(): validateFilePath(...) && <Breadcrumb items={getBreadcrumbItems(...)} /> *)
render ==
    /\ pc = "connected"
    /\ pc' = "rendered"
    /\ IF validateFilePath(originalPath, spWebUrl)
       THEN /\ breadcrumb' = TRUE
            /\ items' = getBreadcrumbItems(spWebUrl.s, originalPath.s, includeSiteName,
                                           includeEntityName, breadcrumbItemsAsLinks)
            /\ calls' = calls + 1
       ELSE /\ breadcrumb' = FALSE
            /\ items' = items
            /\ calls' = calls
    /\ UNCHANGED props

Next == render

Spec == Init /\ [][Next]_vars

(***************************************************************************)
(* Vocabulary of the properties, defined on positions of a string and not  *)
(* through the operators above.                                            *)
(***************************************************************************)

Rendered == pc = "rendered" /\ breadcrumb

Texts(its) == [i \in 1..Len(its) |-> its[i].text]
Keys(its) == [i \in 1..Len(its) |-> its[i].key]
Hrefs(its) == [i \in 1..Len(its) |-> its[i].href]

(* the n-th smallest element of a set of positions *)
Nth(P, n) == CHOOSE i \in P : Cardinality({k \in P : k < i}) = n - 1

(* the characters of s at the positions P, in order *)
Pick(s, P) == [n \in 1..Cardinality(P) |-> s[Nth(P, n)]]

IsPrefix(p, s) == Len(p) <= Len(s) /\ SubSeq(s, 1, Len(p)) = p

IsStrictPrefix(p, s) == Len(p) < Len(s) /\ SubSeq(s, 1, Len(p)) = p

After(s, n) == SubSeq(s, n + 1, Len(s))

Front(seq) == IF seq = <<>> THEN <<>> ELSE SubSeq(seq, 1, Len(seq) - 1)

(* positions where a non-empty '/'-separated segment of s starts *)
SegStarts(s) == {i \in 1..Len(s) : s[i] # "/" /\ (i = 1 \/ s[i - 1] = "/")}

SegEnd(s, i) ==
    CHOOSE j \in i..Len(s) :
        /\ \A k \in i..j : s[k] # "/"
        /\ j = Len(s) \/ s[j + 1] = "/"

SegCount(s) == Cardinality(SegStarts(s))

(* the non-empty '/'-separated segments of s, left to right *)
Segments(s) ==
    [n \in 1..SegCount(s) |->
        LET i == Nth(SegStarts(s), n) IN SubSeq(s, i, SegEnd(s, i))]

(* p occurs in s at position k (1-based) *)
Occurs(s, p, k) ==
    /\ k \in 1..(Len(s) - Len(p) + 1)
    /\ SubSeq(s, k, k + Len(p) - 1) = p

OccursIn(s, p) == \E k \in 1..(Len(s) + 1) : Occurs(s, p, k)

Leftmost(s, p) ==
    CHOOSE k \in 1..(Len(s) + 1) :
        Occurs(s, p, k) /\ \A j \in 1..(k - 1) : ~Occurs(s, p, j)

(* s without the leftmost occurrence of p; s when p does not occur *)
WithoutLeftmost(s, p) ==
    IF OccursIn(s, p)
    THEN SubSeq(s, 1, Leftmost(s, p) - 1) \o After(s, Leftmost(s, p) + Len(p) - 1)
    ELSE s

(* s without its leading and trailing '/' *)
Trim(s) ==
    LET P == {i \in 1..Len(s) : s[i] # "/"}
    IN  IF P = {} THEN <<>>
        ELSE SubSeq(s, Nth(P, 1), Nth(P, Cardinality(P)))

TrimTrailing(s) ==
    LET P == {i \in 1..Len(s) : s[i] # "/"}
    IN  IF P = {} THEN <<>> ELSE SubSeq(s, 1, Nth(P, Cardinality(P)))

(* s with every run of '/' reduced to one '/' *)
Collapse(s) ==
    Pick(s, {i \in 1..Len(s) : ~(s[i] = "/" /\ i > 1 /\ s[i - 1] = "/")})

RECURSIVE Joined(_)
(* the strings of seq with a '/' between neighbours *)
Joined(seq) ==
    IF Len(seq) = 0 THEN <<>>
    ELSE IF Len(seq) = 1 THEN seq[1]
    ELSE Joined(Front(seq)) \o <<"/">> \o seq[Len(seq)]

RECURSIVE Concat(_)
Concat(seq) == IF Len(seq) = 0 THEN <<>> ELSE Concat(Front(seq)) \o seq[Len(seq)]

RECURSIVE IsSubsequence(_, _)
(* the characters of t occur in s in the same order *)
IsSubsequence(t, s) ==
    IF t = <<>> THEN TRUE
    ELSE IF s = <<>> THEN FALSE
    ELSE IF Head(t) = Head(s) THEN IsSubsequence(Tail(t), Tail(s))
    ELSE IsSubsequence(t, Tail(s))

(* the first 4 '/'-separated components of siteUrl: what precedes its 4th '/' *)
BasePath ==
    LET P == {i \in 1..Len(spWebUrl.s) : spWebUrl.s[i] = "/"}
    IN  IF Cardinality(P) < 4 THEN spWebUrl.s
        ELSE SubSeq(spWebUrl.s, 1, Nth(P, 4) - 1)

StripPrefix == IF includeSiteName THEN BasePath ELSE spWebUrl.s

(* originalPath after stripPrefix has been removed *)
Remainder == WithoutLeftmost(originalPath.s, StripPrefix)

SiteIsPrefix == IsPrefix(spWebUrl.s, originalPath.s)

(* originalPath after its leading stripPrefix *)
AfterPrefix == After(originalPath.s, Len(StripPrefix))

(* originalPath after its leading siteUrl *)
AfterSite == After(originalPath.s, Len(spWebUrl.s))

Max(a, b) == IF a > b THEN a ELSE b

(***************************************************************************)
(* Properties.                                                             *)
(***************************************************************************)

EntityDrop == IF includeEntityName THEN 0 ELSE 1

(* C1 as stated: the length of the returned sequence is the number of      *)
(* non-empty segments of originalPath without stripPrefix, minus one when  *)
(* includeEntityName is false, also when that number is zero.              *)
C1_LengthAsStated ==
    Rendered => Len(items) = SegCount(Remainder) - EntityDrop

(* C1 amended: the length of the returned sequence is the number of        *)
(* non-empty segments of originalPath without stripPrefix, minus one when  *)
(* includeEntityName is false and there is at least one segment; with no   *)
(* segment the sequence is empty for both values of includeEntityName.     *)
C1_Length ==
    Rendered => Len(items) = Max(0, SegCount(Remainder) - EntityDrop)

C1_Witness ==
    /\ Rendered
    /\ ~includeEntityName
    /\ StripPrefix # <<>>
    /\ SegCount(Remainder) = 3
    /\ Len(items) = 2

(* C2 as stated: with siteUrl a prefix of originalPath and                 *)
(* includeEntityName true, the texts joined by '/' are the rest of         *)
(* originalPath after stripPrefix without its leading and trailing '/'.    *)
C2_JoinAsStated ==
    (Rendered /\ SiteIsPrefix /\ includeEntityName) =>
        Joined(Texts(items)) = Trim(AfterPrefix)

(* C2 amended: with siteUrl a prefix of originalPath and includeEntityName *)
(* true, the texts joined by '/' are the rest of originalPath after        *)
(* stripPrefix with every run of '/' reduced to one '/' and without its    *)
(* leading and trailing '/'; and when that rest is empty or begins with    *)
(* '/', stripPrefix + '/' + the joined texts is stripPrefix followed by    *)
(* the reduced rest, up to a trailing '/'.                                 *)
C2_Join ==
    (Rendered /\ SiteIsPrefix /\ includeEntityName) =>
        /\ Joined(Texts(items)) = Trim(Collapse(AfterPrefix))
        /\ (AfterPrefix = <<>> \/ Head(AfterPrefix) = "/") =>
               TrimTrailing(StripPrefix \o <<"/">> \o Joined(Texts(items)))
                   = TrimTrailing(StripPrefix \o Collapse(AfterPrefix))

C2_Witness ==
    /\ Rendered
    /\ SiteIsPrefix
    /\ includeEntityName
    /\ includeSiteName
    /\ BasePath # spWebUrl.s
    /\ Len(items) >= 2
    /\ Collapse(AfterPrefix) # AfterPrefix

AnchorBase == IF includeSiteName THEN BasePath ELSE spWebUrl.s

(* C3: with itemsAsLinks true the href of the item at position i is        *)
(* anchorBase + '/' + the texts of items 0..i joined by '/', every href    *)
(* is a strict prefix of the next one, and the example of the              *)
(* documentation yields the three hrefs .../sites/sitename,                *)
(* .../sites/sitename/Shared Documents and the whole originalPath.         *)
C3_Href ==
    (Rendered /\ breadcrumbItemsAsLinks) =>
        /\ \A i \in 1..Len(items) :
               items[i].href
                   = AnchorBase \o <<"/">> \o Joined(SubSeq(Texts(items), 1, i))
        /\ \A i \in 1..(Len(items) - 1) :
               IsStrictPrefix(items[i].href, items[i + 1].href)
        /\ ( /\ originalPath.s = ExampleOriginalPath
             /\ spWebUrl.s = ExampleSiteUrl
             /\ includeSiteName
             /\ includeEntityName ) =>
               Hrefs(items) = << ExampleSiteUrl,
                                 ExampleSiteUrl \o <<"/">> \o SharedDocuments,
                                 ExampleOriginalPath >>

C3_Witness ==
    /\ Rendered
    /\ breadcrumbItemsAsLinks
    /\ originalPath.s = ExampleOriginalPath
    /\ spWebUrl.s = ExampleSiteUrl
    /\ includeSiteName
    /\ includeEntityName
    /\ Len(items) = 3

(* C4: an item has an href exactly when itemsAsLinks is true, and the      *)
(* texts and keys are those returned for the other value of itemsAsLinks.  *)
C4_HrefPresence ==
    Rendered =>
        LET other == getBreadcrumbItems(spWebUrl.s, originalPath.s, includeSiteName,
                                        includeEntityName, ~breadcrumbItemsAsLinks)
        IN  /\ \A i \in 1..Len(items) :
                   ("href" \in DOMAIN items[i]) <=> breadcrumbItemsAsLinks
            /\ \A i \in 1..Len(other) :
                   ("href" \in DOMAIN other[i]) <=> ~breadcrumbItemsAsLinks
            /\ Texts(other) = Texts(items)
            /\ Keys(other) = Keys(items)

C4_Witness ==
    /\ Rendered
    /\ ~breadcrumbItemsAsLinks
    /\ Len(items) >= 2
    /\ \A i \in 1..Len(items) : DOMAIN items[i] = {"text", "key"}

Absent(v) == v.tag \in {"undefined", "null"}

(* C5: with originalPath or spWebUrl undefined or null, render produces no *)
(* breadcrumb and does not invoke getBreadcrumbItems; with both present,   *)
(* empty strings included, the breadcrumb holds the items of               *)
(* getBreadcrumbItems.                                                     *)
C5_Validate ==
    pc = "rendered" =>
        IF Absent(originalPath) \/ Absent(spWebUrl)
        THEN ~breadcrumb /\ calls = 0 /\ items = <<>>
        ELSE /\ breadcrumb
             /\ calls = 1
             /\ Texts(items) = IF includeEntityName
                               THEN Segments(Remainder)
                               ELSE Front(Segments(Remainder))

C5_Witness ==
    /\ pc = "rendered"
    /\ originalPath.tag = "string"
    /\ originalPath.s = <<>>
    /\ spWebUrl.tag = "string"
    /\ breadcrumb
    /\ calls = 1

(* C6: the sequence returned with includeEntityName false is the sequence  *)
(* returned with includeEntityName true without its last item (text, key   *)
(* and href kept), and is empty when that one is empty.                    *)
C6_EntityName ==
    Rendered =>
        LET other == getBreadcrumbItems(spWebUrl.s, originalPath.s, includeSiteName,
                                        ~includeEntityName, breadcrumbItemsAsLinks)
            with == IF includeEntityName THEN items ELSE other
            without == IF includeEntityName THEN other ELSE items
        IN  /\ Len(without) = Max(0, Len(with) - 1)
            /\ \A i \in 1..Len(without) : without[i] = with[i]

C6_Witness ==
    /\ Rendered
    /\ ~includeEntityName
    /\ breadcrumbItemsAsLinks
    /\ Len(items) = 2
    /\ Len(getBreadcrumbItems(spWebUrl.s, originalPath.s, includeSiteName, TRUE,
                              breadcrumbItemsAsLinks)) = 3

(* the non-empty segments of siteUrl after basePath *)
SiteSegments == Segments(After(spWebUrl.s, Len(BasePath)))

WithoutSiteName ==
    getBreadcrumbItems(spWebUrl.s, originalPath.s, FALSE, includeEntityName,
                       breadcrumbItemsAsLinks)

(* with includeSiteName false and siteUrl a prefix of originalPath: the    *)
(* first item is the first non-empty segment after siteUrl and every href  *)
(* starts with siteUrl + '/'                                               *)
C7_RootedAtSite ==
    (Rendered /\ SiteIsPrefix /\ ~includeSiteName) =>
        /\ items # <<>> =>
               /\ SegCount(AfterSite) >= 1
               /\ items[1].text = Segments(AfterSite)[1]
        /\ breadcrumbItemsAsLinks =>
               \A i \in 1..Len(items) :
                   IsPrefix(spWebUrl.s \o <<"/">>, items[i].href)

(* C7 as stated: with siteUrl a prefix of originalPath, includeSiteName    *)
(* false roots the items at siteUrl, and includeSiteName true yields the   *)
(* segments of siteUrl after basePath followed by the items of             *)
(* includeSiteName false.                                                  *)
C7_SiteNameAsStated ==
    /\ C7_RootedAtSite
    /\ (Rendered /\ SiteIsPrefix /\ includeSiteName) =>
           Texts(items) = SiteSegments \o Texts(WithoutSiteName)

(* C7 amended: with siteUrl a prefix of originalPath, includeSiteName      *)
(* false roots the items at siteUrl; includeSiteName true yields items     *)
(* whose texts are the segments of siteUrl after basePath followed by the  *)
(* texts of the items of includeSiteName false, provided siteUrl ends      *)
(* where a segment of originalPath ends (siteUrl ends with '/', or the     *)
(* rest of originalPath is empty or begins with '/') and either            *)
(* includeEntityName is true or that rest has a non-empty segment.         *)
C7_SiteName ==
    /\ C7_RootedAtSite
    /\ ( /\ Rendered /\ SiteIsPrefix /\ includeSiteName
         /\ \/ AfterSite = <<>>
            \/ Head(AfterSite) = "/"
            \/ spWebUrl.s = <<>>
            \/ spWebUrl.s[Len(spWebUrl.s)] = "/"
         /\ includeEntityName \/ SegCount(AfterSite) >= 1 ) =>
           Texts(items) = SiteSegments \o Texts(WithoutSiteName)

C7_Witness ==
    /\ Rendered
    /\ SiteIsPrefix
    /\ includeSiteName
    /\ ~includeEntityName
    /\ Len(SiteSegments) >= 1
    /\ Len(WithoutSiteName) >= 1
    /\ Texts(items) = SiteSegments \o Texts(WithoutSiteName)

DigitValue(c) == CHOOSE d \in 0..9 : Digit[d + 1] = c

RECURSIVE Decimal(_)
(* the number a string of decimal digits denotes *)
Decimal(ds) ==
    IF Len(ds) = 0 THEN 0
    ELSE 10 * Decimal(Front(ds)) + DigitValue(ds[Len(ds)])

(* C8: the item at position i (0-based) has key 'item' followed by i+1 in  *)
(* decimal; the keys are pairwise distinct.                                *)
C8_Keys ==
    Rendered =>
        /\ \A i \in 1..Len(items) :
               /\ Len(items[i].key) > 4
               /\ SubSeq(items[i].key, 1, 4) = <<"i", "t", "e", "m">>
               /\ \A k \in 5..Len(items[i].key) :
                      \E d \in 1..10 : Digit[d] = items[i].key[k]
               /\ items[i].key[5] # "0"
               /\ Decimal(After(items[i].key, 4)) = i
        /\ \A i, j \in 1..Len(items) : i # j => items[i].key # items[j].key

C8_Witness ==
    /\ Rendered
    /\ Len(items) >= 10
    /\ items[10].key = <<"i", "t", "e", "m", "1", "0">>

PopIf(segs) == IF includeEntityName THEN segs ELSE Front(segs)

(* C9: the leftmost literal occurrence of stripPrefix is removed from      *)
(* originalPath, wherever it lies, and nothing when there is none; what    *)
(* precedes and follows it is segmented as one string.  With stripPrefix   *)
(* a prefix of originalPath the leading occurrence is the one removed.     *)
C9_Leftmost ==
    Rendered =>
        /\ Texts(items) = PopIf(Segments(Remainder))
        /\ ~OccursIn(originalPath.s, StripPrefix) =>
               Texts(items) = PopIf(Segments(originalPath.s))
        /\ IsPrefix(StripPrefix, originalPath.s) =>
               Texts(items) = PopIf(Segments(AfterPrefix))

C9_Witness ==
    /\ Rendered
    /\ StripPrefix # <<>>
    /\ ~IsPrefix(StripPrefix, originalPath.s)
    /\ \E k, j \in 2..Len(originalPath.s) :
           k < j /\ Occurs(originalPath.s, StripPrefix, k)
                 /\ Occurs(originalPath.s, StripPrefix, j)
    /\ items # <<>>

(* C10: every text is non-empty and has no '/', and the texts are in the   *)
(* left-to-right order of originalPath.                                    *)
C10_Texts ==
    Rendered =>
        /\ \A i \in 1..Len(items) :
               /\ items[i].text # <<>>
               /\ \A k \in 1..Len(items[i].text) : items[i].text[k] # "/"
        /\ IsSubsequence(Concat(Texts(items)), originalPath.s)
        /\ IsSubsequence(Joined(Texts(items)), Collapse(Remainder))

C10_Witness ==
    /\ Rendered
    /\ Len(items) >= 2
    /\ items[1].text # items[2].text
    /\ \E k \in 1..(Len(originalPath.s) - 1) :
           originalPath.s[k] = "/" /\ originalPath.s[k + 1] = "/"

====
